---- MODULE Spec2Model ----
(***************************************************************************)
(* A model of the service container of src/src/container.ts: the Map of    *)
(* services, and register / resolve / dispose / upsert / disposeAll as     *)
(* they are written there.  JavaScript values are records tagged by "t";   *)
(* object identity is the field "oid", drawn from the counter nextOid.     *)
(***************************************************************************)
EXTENDS Integers, Sequences, FiniteSets, TLC

VARIABLES
    services,   \* Container.services: the Map, as its entries in insertion order
    logger,     \* this.logger: a property the constructor options may attach
    nextOid,    \* identity the next allocated object gets
    defs,       \* the service definitions the program under test registers
    directory,  \* the files of the directory the program auto-loads
    tasks,      \* the calls made while other calls were allowed in between
    hooks,      \* the initializers and disposers that have not completed yet
    disposed,   \* the names disposed of by dispose() and not registered since
    last        \* the last operation: its call, the Map before it, its promise

vars == <<services, logger, nextOid, defs, directory, tasks, hooks, disposed, last>>

----------------------------------------------------------------------------
(* Bounds *)

\* Objects one behaviour may allocate.
MaxOid == 3
\* Longest array passed to register.
MaxBatch == 2
\* Most files the auto-loaded directory holds.
MaxFiles == 3
\* Most calls made while other calls are in flight.
MaxTasks == 2

----------------------------------------------------------------------------
(* JavaScript values *)

Undefined == [t |-> "undefined"]
Null == [t |-> "null"]
Num(n) == [t |-> "number", v |-> n]
Str(s) == [t |-> "string", v |-> s]
Arr(items) == [t |-> "array", items |-> items]
\* An object made by `new`: its constructor, the arguments it received, its identity.
Obj(cls, args, oid) == [t |-> "object", cls |-> cls, args |-> args, oid |-> oid]
\* A function value: fn says which function, oid tells closures apart.
Fn(fn, oid) == [t |-> "function", fn |-> fn, oid |-> oid]

\* typeof v
TypeOf(v) ==
    IF v.t \in {"array", "null"} THEN "object" ELSE v.t

\* The payloads services are made of.
ServiceClass == Fn("ServiceClass", 0)        \* class ServiceClass { constructor(...args) }
ThrowingClass == Fn("ThrowingClass", 0)      \* a class whose constructor throws
primFactory == Fn("primFactory", 0)          \* function () { return 42 }
closureFactory == Fn("closureFactory", 0)    \* function () { return function () {} }
prebuilt == Obj("ServiceClass", <<>>, 0)     \* an instance built by the caller
callableInstance == Fn("closure", 0)         \* a function registered as an instance

\* A completion: a value returned, or an error thrown.
Normal(v) == [thrown |-> FALSE, value |-> v]
Throw(e) == [thrown |-> TRUE, value |-> e]
\* An Error object: kind stands for its message, name for the service it names.
Err(kind, name) == [t |-> "error", kind |-> kind, name |-> name]

\* new f(...args), the fresh object having identity oid.
Construct(f, args, oid) ==
    CASE f.fn = "ThrowingClass" -> Throw(Err("constructor failed", ""))
      [] f.fn = "closureFactory" -> Normal(Fn("closure", oid))
      [] OTHER -> Normal(Obj(f.fn, args, oid))

\* f(...args)
Call(f, args, oid) ==
    CASE f.fn \in {"ServiceClass", "ThrowingClass"} ->
            Throw(Err("TypeError: class constructor invoked without new", ""))
      [] f.fn = "closureFactory" -> Normal(Fn("closure", oid))
      [] OTHER -> Normal(Num(42))

\* Whether a completion allocated the object with identity oid.
Allocated(c, oid) ==
    ~c.thrown /\ c.value.t \in {"object", "function"} /\ c.value.oid = oid

----------------------------------------------------------------------------
(* Service definitions *)

StrName(s) == [type |-> "string", val |-> s]
NumName == [type |-> "number", val |-> "7"]

NoOptions ==
    [inject |-> Undefined, disposer |-> "undefined", initializer |-> "undefined",
     logging |-> "undefined", lazyLoad |-> FALSE, isFunction |-> FALSE,
     isInstance |-> FALSE]

Service(name, service, options) ==
    [name |-> name, service |-> service, options |-> options]

\* What a disposer of behaviour "adds" registers.
HookService ==
    Service(StrName("b"), prebuilt, [NoOptions EXCEPT !.isInstance = TRUE, !.logging = "none"])

\* service.options?.field, of a definition or of a stored entry
Opt(s, field) ==
    IF "options" \in DOMAIN s THEN s.options[field]
    ELSE IF field \in {"inject", "priority"} THEN Undefined
    ELSE IF field \in {"lazyLoad", "isFunction", "isInstance", "upsert"} THEN FALSE
    ELSE "undefined"

----------------------------------------------------------------------------
(* The Map of services *)

\* The slot a deleted entry leaves behind while the Map is being iterated.
Empty == [key |-> [type |-> "empty", val |-> ""], val |-> Undefined]

MapHas(m, k) == \E i \in 1..Len(m) : m[i].key = k
MapGet(m, k) == m[CHOOSE i \in 1..Len(m) : m[i].key = k].val
MapSet(m, k, v) ==
    IF MapHas(m, k)
    THEN [i \in 1..Len(m) |-> IF m[i].key = k THEN [key |-> k, val |-> v] ELSE m[i]]
    ELSE Append(m, [key |-> k, val |-> v])
\* A delete that was forgotten.
MapDeleteNothing(m, k) == m

\* A delete that closes the gap at once, as removing from an array does.
MapDeleteShifting(m, k) == SelectSeq(m, LAMBDA e : e.key # k)

MapDelete(m, k) ==
    [i \in 1..Len(m) |-> IF m[i].key = k THEN Empty ELSE m[i]]
\* The Map with the slots of deleted entries dropped.
Compact(m) == SelectSeq(m, LAMBDA e : e # Empty)
MapKeys(m) == {m[i].key : i \in 1..Len(m)} \ {Empty.key}

----------------------------------------------------------------------------
(* Promises and events *)

This == [t |-> "object", cls |-> "Container", args |-> <<>>, oid |-> 0]

Fulfilled(v) == [state |-> "fulfilled", value |-> v]
Rejected(e) == [state |-> "rejected", value |-> e]
Pending == [state |-> "pending", value |-> Undefined]

\* A call the container makes out of itself: a hook, the console.
Ev(kind, name, arg) == [ev |-> kind, name |-> name, arg |-> arg]

----------------------------------------------------------------------------
(* createServiceInstance *)

createServiceInstance(service, oid) ==
    LET injectArgs == IF Opt(service, "inject") = Undefined THEN <<>>
                      ELSE Opt(service, "inject").items
        made == IF Opt(service, "isFunction") THEN Call(service.service, injectArgs, oid)
                ELSE IF Opt(service, "isInstance") THEN Normal(service.service)
                ELSE Construct(service.service, injectArgs, oid)
    IN  IF made.thrown
        THEN Throw(Err("Error creating service", service.name.val))
        ELSE made

----------------------------------------------------------------------------
(* register *)

\* The state the operations thread through: the Map, the identity counter, the
\* calls out made so far; each operation adds the promise it returns and the
\* error, if any, that was thrown where nothing handles it.
Outcome(m, oid, trace, promise, unhandled) ==
    [services |-> m, nextOid |-> oid, trace |-> trace, promise |-> promise,
     unhandled |-> unhandled]

NoError == Undefined

\* typeof service.name !== "string"
nameIsNotString(service) == service.name.type # "string"

\* A register that has lost its check for a registered name.
alreadyRegisteredNever(m, service) == FALSE

\* this.services.has(service.name)
alreadyRegistered(m, service) == MapHas(m, service.name)

\* What register stores: the definition itself when lazy, else the instance alone.
storedEntry(service, instance) ==
    IF Opt(service, "lazyLoad") THEN service ELSE [service |-> instance]

\* The logging of one registration; lg is this.logger.
logEvents(service, lg) ==
    IF Opt(service, "logging") # "none" /\ ~lg
    THEN IF Opt(service, "logging") = "function"
         THEN <<Ev("logging", service.name, service)>>
         ELSE <<Ev("console.log", service.name, Str("Registered service"))>>
    ELSE <<>>

\* The call of the initializer, when there is one.
initializerEvents(service) ==
    IF Opt(service, "initializer") # "undefined"
    THEN <<Ev("initializer", service.name, This)>>
    ELSE <<>>

RECURSIVE registerLoop(_, _, _, _, _, _)
\* The loop of register from its i-th service on.
registerLoop(m, oid, trace, batch, i, lg) ==
    IF i > Len(batch)
    THEN Outcome(m, oid, trace, Fulfilled(This), NoError)
    ELSE
    LET service == batch[i]
        lazy == Opt(service, "lazyLoad")
        made == createServiceInstance(service, oid)
        m2 == MapSet(m, service.name, storedEntry(service, made.value))
        oid2 == IF ~lazy /\ Allocated(made, oid) THEN oid + 1 ELSE oid
        trace2 == trace \o logEvents(service, lg) \o initializerEvents(service)
    IN  IF nameIsNotString(service)
        THEN Outcome(m, oid, trace,
                     Rejected(Err("Service names must be of type string", service.name.val)),
                     NoError)
        ELSE IF alreadyRegistered(m, service)
        THEN Outcome(m, oid, trace,
                     Rejected(Err("is already registered", service.name.val)), NoError)
        ELSE IF ~lazy /\ made.thrown
        \* thrown inside the async executor: the promise register returned never settles
        THEN Outcome(m, oid, trace, Pending, made.value)
        ELSE IF Opt(service, "initializer") = "rejects"
        \* the await throws inside the async executor, with the same effect
        THEN Outcome(m2, oid2, trace2, Pending, Err("initializer failed", service.name.val))
        ELSE registerLoop(m2, oid2, trace2, batch, i + 1, lg)

\* A register that undoes what it stored when one of its services fails.
registerAllOrNothing(m, oid, trace, batch, lg) ==
    LET r == registerLoop(m, oid, trace, batch, 1, lg)
    IN  IF r.promise.state = "fulfilled" THEN r ELSE [r EXCEPT !.services = m]

register(m, oid, trace, batch, lg) == registerLoop(m, oid, trace, batch, 1, lg)

----------------------------------------------------------------------------
(* resolve *)

\* A resolve that keeps what it constructs, as a lazy singleton would.
resolveCached(m, oid, trace, name) ==
    IF ~MapHas(m, name)
    THEN Outcome(m, oid, trace, Rejected(Err("has not been registered", name.val)), NoError)
    ELSE
    LET serviceOptions == MapGet(m, name)
        inject == Opt(serviceOptions, "inject")
        made == Construct(serviceOptions.service,
                          <<IF inject = Undefined THEN Null ELSE inject>>, oid)
    IN  IF TypeOf(serviceOptions.service) = "function"
        THEN IF made.thrown
             THEN Outcome(m, oid, trace, Rejected(made.value), NoError)
             ELSE Outcome(MapSet(m, name, [service |-> made.value]),
                          IF Allocated(made, oid) THEN oid + 1 ELSE oid, trace,
                          Fulfilled(made.value), NoError)
        ELSE Outcome(m, oid, trace, Fulfilled(serviceOptions.service), NoError)

resolve(m, oid, trace, name) ==
    IF ~MapHas(m, name)
    THEN Outcome(m, oid, trace, Rejected(Err("has not been registered", name.val)), NoError)
    ELSE
    LET serviceOptions == MapGet(m, name)
        inject == Opt(serviceOptions, "inject")
        made == Construct(serviceOptions.service,
                          <<IF inject = Undefined THEN Null ELSE inject>>, oid)
    IN  IF TypeOf(serviceOptions.service) = "function"
        THEN IF made.thrown
             THEN Outcome(m, oid, trace, Rejected(made.value), NoError)
             ELSE Outcome(m, IF Allocated(made, oid) THEN oid + 1 ELSE oid, trace,
                          Fulfilled(made.value), NoError)
        ELSE Outcome(m, oid, trace, Fulfilled(serviceOptions.service), NoError)

----------------------------------------------------------------------------
(* dispose *)

\* A dispose that awaits its disposer: a disposer that fails, in either way,
\* fails the dispose before the delete.
disposeAwaits(m, oid, trace, name, lg) ==
    LET entered == Append(trace, Ev("dispose", name, Undefined))
    IN
    IF ~MapHas(m, name)
    THEN Outcome(m, oid, entered, Rejected(Err("does not exist", name.val)), NoError)
    ELSE
    LET service == MapGet(m, name)
        disposer == Opt(service, "disposer")
        called == IF disposer # "undefined"
                  THEN Append(entered, Ev("disposer", name, service))
                  ELSE entered
        hooked == IF disposer = "adds"
                  THEN register(m, oid, called, <<HookService>>, lg)
                  ELSE Outcome(m, oid, called, Pending, NoError)
    IN  IF disposer \in {"throws", "rejects"}
        THEN Outcome(m, oid, called, Rejected(Err("disposer failed", name.val)), NoError)
        ELSE Outcome(MapDelete(hooked.services, name), hooked.nextOid, hooked.trace,
                     Fulfilled(Undefined), NoError)

dispose(m, oid, trace, name, lg) ==
    LET entered == Append(trace, Ev("dispose", name, Undefined))
    IN
    IF ~MapHas(m, name)
    THEN Outcome(m, oid, entered, Rejected(Err("does not exist", name.val)), NoError)
    ELSE
    LET service == MapGet(m, name)
        disposer == Opt(service, "disposer")
        called == IF disposer # "undefined"
                  THEN Append(entered, Ev("disposer", name, service))
                  ELSE entered
        \* what the disposer did to the container while it ran
        hooked == IF disposer = "adds"
                  THEN register(m, oid, called, <<HookService>>, lg)
                  ELSE Outcome(m, oid, called, Pending, NoError)
    IN  IF disposer = "throws"
        THEN Outcome(m, oid, called, Rejected(Err("disposer failed", name.val)), NoError)
        ELSE Outcome(MapDelete(hooked.services, name), hooked.nextOid, hooked.trace,
                     Fulfilled(Undefined),
                     IF disposer = "rejects" THEN Err("disposer failed", name.val)
                     ELSE NoError)

----------------------------------------------------------------------------
(* upsert *)

\* What the free identifier `key` of upsert is bound to where it runs: reading
\* it throws a ReferenceError unless something has made it a global.
Unbound == [declared |-> FALSE, value |-> StrName("")]
Bound(name) == [declared |-> TRUE, value |-> name]

\* An upsert whose test is the wrong way round.
upsertInverted(m, oid, trace, service, key, lg) ==
    IF MapHas(m, service.name)
    THEN register(m, oid, trace, <<service>>, lg)
    ELSE IF ~key.declared
    THEN Outcome(m, oid, trace, Rejected(Err("ReferenceError: key is not defined", "")),
                 NoError)
    ELSE
    LET gone == dispose(m, oid, trace, key.value, lg)
    IN  IF gone.promise.state = "rejected"
        THEN gone
        ELSE register(Compact(gone.services), gone.nextOid, gone.trace, <<service>>, lg)

upsert(m, oid, trace, service, key, lg) ==
    IF ~MapHas(m, service.name)
    THEN register(m, oid, trace, <<service>>, lg)
    ELSE IF ~key.declared
    THEN Outcome(m, oid, trace, Rejected(Err("ReferenceError: key is not defined", "")),
                 NoError)
    ELSE
    LET gone == dispose(m, oid, trace, key.value, lg)
        registered == register(Compact(gone.services), gone.nextOid, gone.trace,
                               <<service>>, lg)
    IN  IF gone.promise.state = "rejected"
        THEN gone
        ELSE [registered EXCEPT !.unhandled =
                 IF gone.unhandled # NoError THEN gone.unhandled ELSE @]

----------------------------------------------------------------------------
(* disposeAll *)

RECURSIVE disposeAllLoop(_, _, _, _, _)
\* The Map iterator at slot i: it skips the slots of deleted entries and goes on
\* to the entries appended while it runs.
disposeAllLoop(m, oid, trace, i, lg) ==
    IF i > Len(m)
    THEN Outcome(m, oid, trace, Fulfilled(Undefined), NoError)
    ELSE IF m[i] = Empty
    THEN disposeAllLoop(m, oid, trace, i + 1, lg)
    ELSE LET d == dispose(m, oid, trace, m[i].key, lg)
         IN  disposeAllLoop(d.services, d.nextOid, d.trace, i + 1, lg)

disposeAll(m, oid, trace, lg) == disposeAllLoop(m, oid, trace, 1, lg)

----------------------------------------------------------------------------
(* autoLoad *)

\* A file of the directory: whether its name starts with "!", its extension,
\* and the default export importing it yields.
File(bang, ext, module) == [bang |-> bang, ext |-> ext, module |-> module]

\* The options of a module: those of a service, with priority and upsert.
AutoLoadOptions(options, priority, replace) ==
    options @@ [priority |-> priority, upsert |-> replace]

\* file.endsWith(".js") && !file.startsWith("!")
filesToLoad(dir) == SelectSeq(dir, LAMBDA f : f.ext = ".js" /\ ~f.bang)

\* !module || typeof module !== "object", negated
validModule(module) ==
    \/ "name" \in DOMAIN module
    \/ "t" \in DOMAIN module /\ module.t \in {"object", "array"}

\* module.options?.priority || 0
priorityOf(module) ==
    IF Opt(module, "priority") = Undefined THEN 0 ELSE Opt(module, "priority").v

\* A comparator that sorts the lowest priority first.
comparePriorityAscending(a, b) == priorityOf(a) - priorityOf(b)

\* The comparator given to sort: negative when a is to come before b.
comparePriority(a, b) == priorityOf(b) - priorityOf(a)

\* x put into the sorted list after every element that is not to come after it.
insertSorted(sorted, x) ==
    LET before == {i \in 1..Len(sorted) : comparePriority(sorted[i], x) <= 0}
        at == IF before = {} THEN 0 ELSE CHOOSE i \in before : \A j \in before : j <= i
    IN  SubSeq(sorted, 1, at) \o <<x>> \o SubSeq(sorted, at + 1, Len(sorted))

RECURSIVE sortModules(_)
\* modules.sort(...): Array.prototype.sort is stable.
sortModules(modules) ==
    IF modules = <<>> THEN <<>>
    ELSE insertSorted(sortModules(SubSeq(modules, 1, Len(modules) - 1)),
                      modules[Len(modules)])

\* The name argument of the events that are about no single service.
NoName == [type |-> "none", val |-> ""]

\* A test of the upsert option that every module passes.
upsertEnabledAlways(module) == TRUE

\* module.options?.upsert
upsertEnabled(module) == Opt(module, "upsert")

RECURSIVE autoLoadScan(_, _, _, _, _, _, _)
\* The loop of autoLoad over the files from the i-th on, then the sort and the
\* register of the modules it kept.
autoLoadScan(m, oid, trace, files, i, modules, lg) ==
    IF i > Len(files)
    THEN LET sorted == sortModules(modules)
             registered == register(m, oid, Append(trace, Ev("register", NoName, sorted)),
                                    sorted, lg)
         IN  IF registered.promise.state = "fulfilled"
             THEN [registered EXCEPT !.promise = Fulfilled(Undefined)]
             ELSE registered
    ELSE
    LET module == files[i].module
        gone == dispose(m, oid, trace, module.name, lg)
        rest == autoLoadScan(gone.services, gone.nextOid, gone.trace, files, i + 1,
                             Append(modules, module), lg)
    IN  IF ~validModule(module)
        THEN Outcome(m, oid, trace,
                     Rejected(Err("does not export a valid service module", "")), NoError)
        ELSE IF ~MapHas(m, module.name)
        THEN autoLoadScan(m, oid, trace, files, i + 1, Append(modules, module), lg)
        ELSE IF ~upsertEnabled(module)
        THEN Outcome(m, oid, trace,
                     Rejected(Err("Service already exists with name", module.name.val)),
                     NoError)
        ELSE IF gone.promise.state = "rejected"
        THEN gone
        ELSE IF gone.unhandled # NoError /\ rest.unhandled = NoError
        THEN [rest EXCEPT !.unhandled = gone.unhandled]
        ELSE rest

autoLoad(m, oid, trace, dir, lg) ==
    autoLoadScan(m, oid, trace, filesToLoad(dir), 1, <<>>, lg)

----------------------------------------------------------------------------
(* The programs explored: the service definitions a program registers *)

A == StrName("a")
B == StrName("b")

Lazy == [NoOptions EXCEPT !.lazyLoad = TRUE]

\* Definitions named "a": every kind of service, eager and lazy, and every hook.
Pool ==
    { Service(A, ServiceClass, NoOptions),
      Service(A, ServiceClass, Lazy),
      Service(A, ServiceClass, [NoOptions EXCEPT !.inject = Arr(<<Num(1)>>)]),
      Service(A, ServiceClass, [Lazy EXCEPT !.inject = Arr(<<Num(1)>>)]),
      Service(A, primFactory, [NoOptions EXCEPT !.isFunction = TRUE]),
      Service(A, primFactory, [Lazy EXCEPT !.isFunction = TRUE]),
      Service(A, closureFactory, [NoOptions EXCEPT !.isFunction = TRUE]),
      Service(A, prebuilt, [NoOptions EXCEPT !.isInstance = TRUE]),
      Service(A, prebuilt, [Lazy EXCEPT !.isInstance = TRUE]),
      Service(A, callableInstance, [NoOptions EXCEPT !.isInstance = TRUE]),
      Service(A, ThrowingClass, NoOptions),
      Service(A, ThrowingClass, Lazy),
      Service(A, ServiceClass, [NoOptions EXCEPT !.disposer = "ok"]),
      Service(A, ServiceClass, [Lazy EXCEPT !.disposer = "ok"]),
      Service(A, ServiceClass, [Lazy EXCEPT !.disposer = "throws"]),
      Service(A, ServiceClass, [Lazy EXCEPT !.disposer = "rejects"]),
      Service(A, ServiceClass, [Lazy EXCEPT !.disposer = "adds"]),
      Service(A, ServiceClass, [NoOptions EXCEPT !.initializer = "ok", !.logging = "function"]),
      Service(A, ServiceClass, [NoOptions EXCEPT !.initializer = "rejects"]),
      Service(A, ServiceClass, [Lazy EXCEPT !.initializer = "ok", !.logging = "none"]),
      Service(NumName, ServiceClass, NoOptions),
      Service(StrName(""), ServiceClass, NoOptions) }

\* The definition registered beside it: another one for the same name, or one
\* for another name.
Companions ==
    { Service(A, ServiceClass, [NoOptions EXCEPT !.inject = Arr(<<Num(2)>>)]),
      Service(B, ServiceClass, [Lazy EXCEPT !.disposer = "ok"]),
      Service(B, ServiceClass, [Lazy EXCEPT !.disposer = "throws"]),
      Service(B, primFactory, [NoOptions EXCEPT !.isFunction = TRUE, !.initializer = "ok"]) }

\* The files a directory is made of: modules of priorities 1, 5, 3, none and
\* 0, one of them replacing a registered service; a file that exports nothing;
\* an excluded file.
FilePool ==
    { File(FALSE, ".js",
           Service(A, ServiceClass,
                   AutoLoadOptions([Lazy EXCEPT !.disposer = "ok"], Num(1), TRUE))),
      File(FALSE, ".js",
           Service(B, ServiceClass, AutoLoadOptions(NoOptions, Num(5), FALSE))),
      File(FALSE, ".js",
           Service(StrName("c"), ServiceClass,
                   AutoLoadOptions([Lazy EXCEPT !.logging = "none"], Num(3), FALSE))),
      File(FALSE, ".js",
           Service(StrName("d"), prebuilt,
                   AutoLoadOptions([NoOptions EXCEPT !.isInstance = TRUE], Undefined, FALSE))),
      File(FALSE, ".js",
           Service(StrName("e"), ServiceClass,
                   AutoLoadOptions([Lazy EXCEPT !.disposer = "throws"], Num(0), TRUE))),
      File(FALSE, ".js", Undefined),
      File(TRUE, ".js", Service(A, ServiceClass, AutoLoadOptions(NoOptions, Num(9), FALSE))) }

\* The directories: up to MaxFiles files, no file twice, in any order.
Directories ==
    {dir \in UNION {[1..n -> FilePool] : n \in 0..MaxFiles} :
        \A i, j \in 1..Len(dir) : i # j => dir[i] # dir[j]}

Names == {A, B, NumName, StrName("")}

Batches == UNION {[1..n -> defs] : n \in 1..MaxBatch}

\* Nothing the container's module imports or declares is called `key`, and no
\* host defines a global of that name: where the container runs, `key` is unbound.
GlobalKeys == {Unbound}

----------------------------------------------------------------------------
(* The container as a state machine *)

Record(op, arg, key, out) ==
    [op |-> op, arg |-> arg, key |-> key, pre |-> services, preOid |-> nextOid,
     promise |-> out.promise, trace |-> out.trace, unhandled |-> out.unhandled]

Apply(op, arg, key, out) ==
    /\ out.nextOid <= MaxOid + 1
    /\ services' = Compact(out.services)
    /\ nextOid' = out.nextOid
    /\ last' = Record(op, arg, key, out)
    /\ disposed' =
         (disposed \cup (IF op = "dispose" /\ out.promise.state = "fulfilled"
                         THEN {arg} ELSE {}))
         \ ((MapKeys(out.services) \ MapKeys(services))
             \cup (IF op = "upsert" /\ out.promise.state = "fulfilled"
                   THEN {arg.name} ELSE {}))
    /\ UNCHANGED <<logger, defs, directory, tasks, hooks>>

\* new Container(options)
Init ==
    /\ services = <<>>
    /\ logger \in BOOLEAN
    /\ nextOid = 1
    \* a program that registers two definitions, or one that auto-loads a directory
    /\ \/ /\ defs \in {{d, c} : d \in Pool, c \in Companions}
          /\ directory = <<>>
       \/ /\ defs = {}
          /\ directory \in Directories \ {<<>>}
    /\ tasks = <<>>
    /\ hooks = {}
    /\ disposed = {}
    /\ last = [op |-> "new", arg |-> Undefined, key |-> Unbound, pre |-> <<>>,
               preOid |-> 1, promise |-> Fulfilled(This), trace |-> <<>>,
               unhandled |-> NoError]

Register ==
    \E batch \in Batches :
        Apply("register", batch, Unbound, register(services, nextOid, <<>>, batch, logger))

Resolve ==
    \E name \in Names :
        Apply("resolve", name, Unbound, resolve(services, nextOid, <<>>, name))

Dispose ==
    \E name \in Names :
        Apply("dispose", name, Unbound, dispose(services, nextOid, <<>>, name, logger))

Upsert ==
    \E service \in defs, key \in GlobalKeys :
        Apply("upsert", service, key, upsert(services, nextOid, <<>>, service, key, logger))

DisposeAll ==
    Apply("disposeAll", Undefined, Unbound, disposeAll(services, nextOid, <<>>, logger))

AutoLoad ==
    Apply("autoLoad", directory, Unbound, autoLoad(services, nextOid, <<>>, directory, logger))

Next == Register \/ Resolve \/ Dispose \/ Upsert \/ DisposeAll \/ AutoLoad

Spec == Init /\ [][Next]_vars

----------------------------------------------------------------------------
(* Calls in flight together *)

\* An initializer or disposer that has been called and has not completed:
\* the call that started it, the position in that call's array of the
\* service it belongs to (0 for a disposer), and how it is going to end.
Hook(kind, task, index, name, outcome) ==
    [kind |-> kind, task |-> task, index |-> index, name |-> name, outcome |-> outcome]

\* What one uninterrupted run of a call does: the Map and the identity counter
\* it leaves, where the call stands, how many services of its array it has
\* checked, the names it stored and logged, the hooks it started, its error.
Run(m, oid, state, checked, stored, logged, started, error) ==
    [services |-> m, nextOid |-> oid, state |-> state, checked |-> checked,
     stored |-> stored, logged |-> logged, started |-> started, error |-> error]

\* A register that calls the initializer and goes on without waiting for it.
suspendsNever(service) == FALSE

\* await service.options.initializer(this): the loop stops until the
\* initializer has completed, whether or not it returns a promise.
suspends(service) == Opt(service, "initializer") # "undefined"

RECURSIVE registerFrom(_, _, _, _, _, _)
\* The loop of register, call number task, from its i-th service on and up to
\* the first await or the end.
registerFrom(m, oid, task, batch, i, lg) ==
    IF i > Len(batch)
    THEN Run(m, oid, "fulfilled", Len(batch), <<>>, <<>>, {}, NoError)
    ELSE
    LET service == batch[i]
        lazy == Opt(service, "lazyLoad")
        made == createServiceInstance(service, oid)
        m2 == MapSet(m, service.name, storedEntry(service, made.value))
        oid2 == IF ~lazy /\ Allocated(made, oid) THEN oid + 1 ELSE oid
        logs == IF logEvents(service, lg) # <<>> THEN <<service.name>> ELSE <<>>
        started == IF Opt(service, "initializer") # "undefined"
                   THEN {Hook("initializer", task, i, service.name,
                              Opt(service, "initializer"))}
                   ELSE {}
        rest == registerFrom(m2, oid2, task, batch, i + 1, lg)
    IN  IF nameIsNotString(service)
        THEN Run(m, oid, "rejected", i, <<>>, <<>>, {},
                 Err("Service names must be of type string", service.name.val))
        ELSE IF alreadyRegistered(m, service)
        THEN Run(m, oid, "rejected", i, <<>>, <<>>, {},
                 Err("is already registered", service.name.val))
        ELSE IF ~lazy /\ made.thrown
        THEN Run(m, oid, "stuck", i, <<>>, <<>>, {}, made.value)
        ELSE IF suspends(service)
        THEN Run(m2, oid2, "awaiting", i, <<service.name>>, logs, started, NoError)
        ELSE [rest EXCEPT !.stored = <<service.name>> \o @,
                          !.logged = logs \o @,
                          !.started = started \cup @]

\* The executor of dispose, call number task: it runs to its end at once.
disposeNow(m, oid, task, name) ==
    LET disposer == IF MapHas(m, name) THEN Opt(MapGet(m, name), "disposer")
                    ELSE "undefined"
    IN  IF ~MapHas(m, name)
        THEN Run(m, oid, "rejected", 0, <<>>, <<>>, {}, Err("does not exist", name.val))
        ELSE IF disposer = "throws"
        THEN Run(m, oid, "rejected", 0, <<>>, <<>>, {}, Err("disposer failed", name.val))
        ELSE Run(MapDelete(m, name), oid, "fulfilled", 0, <<>>, <<>>,
                 IF disposer = "undefined" THEN {}
                 ELSE {Hook("disposer", task, 0, name, disposer)},
                 NoError)

\* A call: what it was asked, the calls that were suspended when it began,
\* and what its runs have done so far.
Task(op, arg, concurrent, ran) ==
    [op |-> op, arg |-> arg, concurrent |-> concurrent, state |-> ran.state,
     checked |-> ran.checked, stored |-> ran.stored, logged |-> ran.logged,
     error |-> ran.error]

\* The calls that have begun and not returned.
Suspended == {t \in 1..Len(tasks) : tasks[t].state \in {"awaiting", "ready"}}

\* The services of programs whose hooks take time: a class with an
\* initializer, a lazy class with an initializer and a disposer, an instance
\* under the name of the first, hooks that fail, a disposer that throws.
HookPool ==
    { Service(A, ServiceClass, [NoOptions EXCEPT !.initializer = "ok"]),
      Service(B, ServiceClass, [Lazy EXCEPT !.initializer = "ok", !.disposer = "ok"]),
      Service(A, prebuilt, [NoOptions EXCEPT !.isInstance = TRUE]),
      Service(B, ServiceClass, [Lazy EXCEPT !.initializer = "rejects", !.disposer = "rejects"]),
      Service(A, ServiceClass, [Lazy EXCEPT !.disposer = "throws"]) }

InitAsync ==
    /\ services = <<>>
    /\ logger \in BOOLEAN
    /\ nextOid = 1
    /\ defs \in {{d, c} : d, c \in HookPool}
    /\ directory = <<>>
    /\ tasks = <<>>
    /\ hooks = {}
    /\ disposed = {}
    /\ last = [op |-> "new", arg |-> Undefined, key |-> Unbound, pre |-> <<>>,
               preOid |-> 1, promise |-> Fulfilled(This), trace |-> <<>>,
               unhandled |-> NoError]

\* One uninterrupted run of call t, which leaves the call as the record next.
Step(ran, next) ==
    /\ ran.nextOid <= MaxOid + 1
    /\ services' = Compact(ran.services)
    /\ nextOid' = ran.nextOid
    /\ tasks' = next
    /\ hooks' = hooks \cup ran.started
    /\ UNCHANGED <<logger, defs, directory, disposed, last>>

\* container.register(batch) is called.
BeginRegister ==
    \E batch \in Batches :
        LET t == Len(tasks) + 1
            ran == registerFrom(services, nextOid, t, batch, 1, logger)
        IN  /\ t <= MaxTasks
            /\ Step(ran, Append(tasks, Task("register", batch, Suspended, ran)))

\* The initializer a register awaits completes: the await is ready to return,
\* or to throw when the initializer failed.
InitializerDone ==
    \E h \in hooks :
        /\ h.kind = "initializer"
        /\ hooks' = hooks \ {h}
        /\ tasks' = IF tasks[h.task].state = "awaiting" /\ tasks[h.task].checked = h.index
                    THEN [tasks EXCEPT ![h.task].state =
                              IF h.outcome = "rejects" THEN "stuck" ELSE "ready",
                                       ![h.task].error =
                              IF h.outcome = "rejects"
                              THEN Err("initializer failed", h.name.val) ELSE @]
                    ELSE tasks
        /\ UNCHANGED <<services, logger, nextOid, defs, directory, disposed, last>>

\* A register goes on after its await.
Resume ==
    \E t \in 1..Len(tasks) :
        LET ran == registerFrom(services, nextOid, t, tasks[t].arg, tasks[t].checked + 1,
                                logger)
        IN  /\ tasks[t].state = "ready"
            /\ Step(ran, [tasks EXCEPT ![t].state = ran.state,
                                       ![t].checked = ran.checked,
                                       ![t].stored = @ \o ran.stored,
                                       ![t].logged = @ \o ran.logged,
                                       ![t].error = ran.error])

\* container.dispose(name) is called.
BeginDispose ==
    \E service \in defs :
        LET t == Len(tasks) + 1
            ran == disposeNow(services, nextOid, t, service.name)
        IN  /\ t <= MaxTasks
            /\ Step(ran, Append(tasks, Task("dispose", service.name, Suspended, ran)))

\* A disposer completes.
DisposerDone ==
    \E h \in hooks :
        /\ h.kind = "disposer"
        /\ hooks' = hooks \ {h}
        /\ UNCHANGED <<services, logger, nextOid, defs, directory, tasks, disposed, last>>

NextAsync == BeginRegister \/ InitializerDone \/ Resume \/ BeginDispose \/ DisposerDone

SpecAsync == InitAsync /\ [][NextAsync]_vars

----------------------------------------------------------------------------
(* Vocabulary of the properties *)

\* The calls of dispose() made by the last operation, in order, by name.
DisposeCalls ==
    LET calls == SelectSeq(last.trace, LAMBDA e : e.ev = "dispose")
    IN  [i \in 1..Len(calls) |-> calls[i].name]

\* The calls of the disposer hook of name made by the last operation.
DisposerCalls(trace, name) ==
    SelectSeq(trace, LAMBDA e : e.ev = "disposer" /\ e.name = name)

KeysInOrder(m) == [i \in 1..Len(m) |-> m[i].key]

RejectedWith(promise, kind, name) ==
    promise = Rejected(Err(kind, name.val))

----------------------------------------------------------------------------
(* C1 *)

\* C1: register of a service whose name is already registered fails with the
\* "is already registered" error and leaves the entry stored under that name as
\* it was: same stored value, resolving to the same result.  Whatever the array
\* holds, register never fulfils when one of its names was registered before, and
\* never touches an entry that was there.
C1_DuplicateRejected ==
    last.op = "register" =>
        /\ MapHas(last.pre, last.arg[1].name) =>
              /\ RejectedWith(last.promise, "is already registered", last.arg[1].name)
              /\ services = last.pre
        /\ (\E i \in 1..Len(last.arg) : MapHas(last.pre, last.arg[i].name)) =>
              last.promise.state # "fulfilled"
        /\ \A k \in MapKeys(last.pre) :
              /\ MapHas(services, k)
              /\ MapGet(services, k) = MapGet(last.pre, k)
              /\ resolve(services, nextOid, <<>>, k).promise
                    = resolve(last.pre, nextOid, <<>>, k).promise

\* A second definition for a registered name was turned down.
C1_Witness ==
    /\ last.op = "register"
    /\ MapHas(last.pre, last.arg[1].name)
    /\ storedEntry(last.arg[1], createServiceInstance(last.arg[1], nextOid).value)
         # MapGet(last.pre, last.arg[1].name)
    /\ last.promise.state = "rejected"

----------------------------------------------------------------------------
(* C2, C3, C4 *)

\* An entry register stored for an eager service: the instance alone.
IsEager(entry) == "options" \notin DOMAIN entry

\* An entry register stored for a lazy service that is a class.
IsLazyClass(entry) ==
    /\ ~IsEager(entry)
    /\ Opt(entry, "lazyLoad")
    /\ ~Opt(entry, "isFunction")
    /\ ~Opt(entry, "isInstance")

\* C2: resolve of a service registered eagerly returns the very value realized
\* at registration, whatever that value is, and constructs nothing.
C2_EagerResolveIdentical ==
    (last.op = "resolve" /\ MapHas(last.pre, last.arg)) =>
        LET entry == MapGet(last.pre, last.arg)
        IN  IsEager(entry) =>
              /\ last.promise = Fulfilled(entry.service)
              /\ nextOid = last.preOid

\* What resolve is to return for a definition: the result of calling a function,
\* the instance itself, an instance of the class.
MatchesKind(service, v) ==
    LET injectArgs == IF Opt(service, "inject") = Undefined THEN <<>>
                      ELSE Opt(service, "inject").items
    IN  IF Opt(service, "isFunction")
        THEN \E oid \in 0..(MaxOid + 1) : Normal(v) = Call(service.service, injectArgs, oid)
        ELSE IF Opt(service, "isInstance")
        THEN v = service.service
        ELSE v.t = "object" /\ v.cls = service.service.fn

\* C3: after register of valid definitions with unique names (and constructors
\* that do not throw), resolve of each returns a value of its kind.
C3_ResolveMatchesKind ==
    (last.op = "register" /\ last.promise.state = "fulfilled") =>
        \A i \in 1..Len(last.arg) :
            LET service == last.arg[i]
                resolved == resolve(services, nextOid, <<>>, service.name).promise
            IN  (service.name.val # "" /\ service.service # ThrowingClass) =>
                  /\ resolved.state = "fulfilled"
                  /\ MatchesKind(service, resolved.value)

\* The identities of the objects a Map holds as instances.
StoredOids(m) ==
    {m[i].val.service.oid : i \in {j \in 1..Len(m) : m[j] # Empty /\ IsEager(m[j].val)
                                     /\ m[j].val.service.t \in {"object", "function"}}}

\* C4: resolve of a lazy class (whose constructor does not throw) returns an
\* instance no earlier operation has seen, the next resolve returns another one,
\* and the entry stays the definition that was registered.
C4_LazyClassFresh ==
    (last.op = "resolve" /\ MapHas(last.pre, last.arg)) =>
        LET entry == MapGet(last.pre, last.arg)
            v == last.promise.value
        IN  (IsLazyClass(entry) /\ entry.service # ThrowingClass) =>
              /\ last.promise.state = "fulfilled"
              /\ v.t = "object" /\ v.cls = entry.service.fn
              /\ v.oid >= last.preOid /\ v.oid < nextOid
              /\ \A o \in StoredOids(last.pre) : o < v.oid
              /\ services = last.pre
              /\ MapGet(services, last.arg) = entry
              /\ resolve(services, nextOid, <<>>, last.arg).promise.value # v

\* A lazy class resolved after something else was allocated.
C4_Witness ==
    /\ last.op = "resolve"
    /\ MapHas(last.pre, last.arg)
    /\ IsLazyClass(MapGet(last.pre, last.arg))
    /\ last.promise.state = "fulfilled"
    /\ last.preOid > 1

----------------------------------------------------------------------------
(* C5, C6 *)

\* C5: upsert of a definition whose name is registered disposes of the entry
\* (its disposer, when the entry has one that does not throw, is called once)
\* and registers the definition: when the definition is one register accepts,
\* upsert fulfils and the name holds the new definition's entry.
C5_UpsertReplaces ==
    (last.op = "upsert" /\ MapHas(last.pre, last.arg.name)) =>
        LET name == last.arg.name
            old == MapGet(last.pre, name)
            alone == register(<<>>, last.preOid, <<>>, <<last.arg>>, logger)
        IN  (Opt(old, "disposer") # "throws" /\ alone.promise.state = "fulfilled") =>
              /\ Opt(old, "disposer") # "undefined" =>
                    DisposerCalls(last.trace, name) = <<Ev("disposer", name, old)>>
              /\ last.promise = Fulfilled(This)
              /\ MapHas(services, name)
              /\ MapGet(services, name) = MapGet(alone.services, name)

\* C6: upsert of a definition whose name is not registered does what register
\* of that one definition does from the same state: the same Map, the same calls
\* of hooks and logging in the same order, the same promise.
C6_UpsertAbsentIsRegister ==
    (last.op = "upsert" /\ ~MapHas(last.pre, last.arg.name)) =>
        LET alone == register(last.pre, last.preOid, <<>>, <<last.arg>>, logger)
        IN  /\ services = Compact(alone.services)
            /\ nextOid = alone.nextOid
            /\ last.trace = alone.trace
            /\ last.promise = alone.promise
            /\ last.unhandled = alone.unhandled

\* An upsert of an unregistered name that stored, logged and initialized.
C6_Witness ==
    /\ last.op = "upsert"
    /\ ~MapHas(last.pre, last.arg.name)
    /\ MapHas(services, last.arg.name)
    /\ Len(last.trace) = 2
    /\ last.promise = Fulfilled(This)

----------------------------------------------------------------------------
(* C7, C8 *)

\* C7: a service registered with a disposer, lazy or eager, has the disposer
\* called exactly once, with the container and the entry, by dispose.
C7_DisposerInvokedOnce ==
    (last.op = "register" /\ last.promise.state = "fulfilled") =>
        \A i \in 1..Len(last.arg) :
            LET service == last.arg[i]
                gone == dispose(services, nextOid, <<>>, service.name, logger)
            IN  Opt(service, "disposer") # "undefined" =>
                  DisposerCalls(gone.trace, service.name)
                    = <<Ev("disposer", service.name, MapGet(services, service.name))>>

\* C8 as claimed: dispose of a registered name removes it whatever its disposer
\* does.
C8_RemovedUnconditionally ==
    (last.op = "dispose" /\ MapHas(last.pre, last.arg)) => ~MapHas(services, last.arg)

\* C8: dispose of a registered name removes the name and fulfils once the
\* disposer has returned, also when the promise the disposer returned rejects;
\* when the disposer throws, dispose rejects and the name stays registered with
\* its entry.
C8_RemovedUnlessDisposerThrows ==
    (last.op = "dispose" /\ MapHas(last.pre, last.arg)) =>
        LET entry == MapGet(last.pre, last.arg)
        IN  IF Opt(entry, "disposer") = "throws"
            THEN /\ last.promise.state = "rejected"
                 /\ services = last.pre
                 /\ DisposerCalls(last.trace, last.arg) = <<Ev("disposer", last.arg, entry)>>
            ELSE /\ last.promise = Fulfilled(Undefined)
                 /\ ~MapHas(services, last.arg)
                 /\ Opt(entry, "disposer") # "undefined" =>
                       DisposerCalls(last.trace, last.arg) = <<Ev("disposer", last.arg, entry)>>

\* A dispose whose disposer failed asynchronously, and removed the name.
C8_Witness ==
    /\ last.op = "dispose"
    /\ MapHas(last.pre, last.arg)
    /\ Opt(MapGet(last.pre, last.arg), "disposer") = "rejects"
    /\ last.unhandled # NoError
    /\ ~MapHas(services, last.arg)

----------------------------------------------------------------------------
(* C9, C10 *)

\* C9: a name that dispose has removed, and that nothing has registered since,
\* is not in the Map, and resolve of it rejects with "has not been registered".
C9_DisposedNotResolvable ==
    /\ \A name \in disposed :
          /\ ~MapHas(services, name)
          /\ RejectedWith(resolve(services, nextOid, <<>>, name).promise,
                          "has not been registered", name)
    /\ (last.op = "resolve" /\ last.arg \in disposed) =>
          RejectedWith(last.promise, "has not been registered", last.arg)

\* A resolve of a name that was disposed of.
C9_Witness ==
    /\ last.op = "resolve"
    /\ last.arg \in disposed
    /\ last.promise.state = "rejected"

\* C10: disposeAll calls dispose once for each entry the Map held when it was
\* called, in the Map's order, before any entry added while it runs; it skips
\* none, and what it leaves are the entries whose disposer threw.
C10_DisposeAllEveryEntry ==
    last.op = "disposeAll" =>
        /\ Len(DisposeCalls) >= Len(last.pre)
        /\ SubSeq(DisposeCalls, 1, Len(last.pre)) = KeysInOrder(last.pre)
        /\ \A k \in MapKeys(services) : Opt(MapGet(services, k), "disposer") = "throws"
        /\ last.promise = Fulfilled(Undefined)

\* A disposeAll over two entries during which a disposer registered a name that
\* had just been disposed of.
C10_Witness ==
    /\ last.op = "disposeAll"
    /\ Len(last.pre) = 2
    /\ Len(DisposeCalls) = 3
    /\ services = <<>>

----------------------------------------------------------------------------
(* C13, C14 *)

\* The service is eager and making its instance throws.
ConstructionFails(service, oid) ==
    ~Opt(service, "lazyLoad") /\ createServiceInstance(service, oid).thrown

\* C13: when making the instance of an eager service throws, the promise
\* register returned rejects with the "Error creating service" error that names
\* the service: it neither stays pending nor fulfils.
C13_ConstructionFailureRejects ==
    (/\ last.op = "register"
     /\ ~nameIsNotString(last.arg[1])
     /\ ~MapHas(last.pre, last.arg[1].name)
     /\ ConstructionFails(last.arg[1], last.preOid)) =>
        RejectedWith(last.promise, "Error creating service", last.arg[1].name)

\* The services of the last register that were stored: register appends, so
\* they are the entries past those the Map held before.
StoredCount == Len(services) - Len(last.pre)

\* C14: when a service of the array fails (its name is not a string, its name
\* is registered, or making its instance throws), the services before it stay
\* registered, in order, and neither it nor any service after it is stored.
C14_PartiallyApplied ==
    (/\ last.op = "register"
     /\ last.promise.state # "fulfilled"
     /\ last.unhandled.t = "error" => last.unhandled.kind = "Error creating service") =>
        LET k == StoredCount + 1
        IN  /\ k \in 1..Len(last.arg)
            /\ SubSeq(services, 1, Len(last.pre)) = last.pre
            /\ \A i \in 1..(k - 1) :
                  LET stored == services[Len(last.pre) + i]
                  IN  /\ stored.key = last.arg[i].name
                      /\ IF Opt(last.arg[i], "lazyLoad")
                         THEN stored.val = last.arg[i]
                         ELSE IsEager(stored.val)
            /\ \/ nameIsNotString(last.arg[k])
               \/ MapHas(SubSeq(services, 1, Len(last.pre) + k - 1), last.arg[k].name)
               \/ ConstructionFails(last.arg[k], nextOid)
            /\ Len(services) = Len(last.pre) + k - 1

\* The second of two services failed in construction, the first stays registered.
C14_Witness ==
    /\ last.op = "register"
    /\ Len(last.arg) = 2
    /\ last.promise.state = "pending"
    /\ last.unhandled.t = "error" /\ last.unhandled.kind = "Error creating service"
    /\ StoredCount = 1
    /\ MapHas(services, last.arg[1].name)

----------------------------------------------------------------------------
(* C18, C19, C20 *)

\* service.options?.inject as the list of arguments it stands for.
InjectArgs(service) ==
    IF Opt(service, "inject") = Undefined THEN <<>> ELSE Opt(service, "inject").items

\* A definition of a class: neither a function nor an instance.
IsClass(service) == ~Opt(service, "isFunction") /\ ~Opt(service, "isInstance")

\* C18: a class is constructed with its inject values as the constructor's
\* arguments, one by one, when register constructs it and when resolve
\* constructs it from a lazy definition; without inject it receives none.
C18_InjectSpread ==
    /\ (last.op = "register" /\ last.promise.state = "fulfilled") =>
          \A i \in 1..Len(last.arg) :
              (IsClass(last.arg[i]) /\ ~Opt(last.arg[i], "lazyLoad")) =>
                  MapGet(services, last.arg[i].name).service.args = InjectArgs(last.arg[i])
    /\ (last.op = "resolve" /\ MapHas(last.pre, last.arg)) =>
          LET entry == MapGet(last.pre, last.arg)
          IN  (IsLazyClass(entry) /\ last.promise.state = "fulfilled") =>
                  last.promise.value.args = InjectArgs(entry)

\* The name is the empty string or not a string.
InvalidName(name) == name.type # "string" \/ name.val = ""

\* C19: register of a service whose name is empty or not a string rejects with
\* the "Service names must be of type string" error and stores nothing for it;
\* the empty string is never a key of the Map.
C19_InvalidNameRejected ==
    /\ ~MapHas(services, StrName(""))
    /\ (last.op = "register" /\ InvalidName(last.arg[1].name)) =>
          /\ RejectedWith(last.promise, "Service names must be of type string",
                          last.arg[1].name)
          /\ services = last.pre

\* C20: resolve leaves the Map as it was, whether the name is registered or
\* not, lazy or eager, and whether resolve fulfils or rejects.
C20_ResolveKeepsMap ==
    last.op = "resolve" => services = last.pre

\* A resolve that constructed an instance from a registered definition.
C20_Witness ==
    /\ last.op = "resolve"
    /\ MapHas(last.pre, last.arg)
    /\ ~IsEager(MapGet(last.pre, last.arg))
    /\ last.promise.state = "fulfilled"
    /\ nextOid > last.preOid

----------------------------------------------------------------------------
(* C11 *)

\* The default exports of the files the last autoLoad imports, in the order
\* the directory lists them.
Discovered ==
    IF last.op # "autoLoad" THEN <<>>
    ELSE LET files == SelectSeq(last.arg, LAMBDA f : f.ext = ".js" /\ ~f.bang)
         IN  [i \in 1..Len(files) |-> files[i].module]

\* The last operation was an autoLoad that handed its modules to register.
Submitted ==
    /\ last.op = "autoLoad"
    /\ \E i \in 1..Len(last.trace) : last.trace[i].ev = "register"

\* The array it handed over.
SubmittedModules ==
    SelectSeq(last.trace, LAMBDA e : e.ev = "register")[1].arg

\* The priority of a module, a missing one counting as 0.
PriorityValue(module) ==
    IF module.options.priority = Undefined THEN 0 ELSE module.options.priority.v

DiscoveryIndex(module) ==
    CHOOSE i \in 1..Len(Discovered) : Discovered[i] = module

\* C11: autoLoad hands register exactly the modules it accepted, a module of
\* higher priority before one of lower priority (a missing priority counting
\* as 0) and modules of equal priority in the order they were discovered; when
\* the registration succeeds the registry holds them, last, in that order.
C11_PriorityOrder ==
    Submitted =>
        LET batch == SubmittedModules
        IN  /\ Len(batch) = Len(Discovered)
            /\ {batch[i] : i \in 1..Len(batch)}
                   = {Discovered[i] : i \in 1..Len(Discovered)}
            /\ \A i, j \in 1..Len(batch) :
                   i < j =>
                       \/ PriorityValue(batch[i]) > PriorityValue(batch[j])
                       \/ /\ PriorityValue(batch[i]) = PriorityValue(batch[j])
                          /\ DiscoveryIndex(batch[i]) < DiscoveryIndex(batch[j])
            /\ last.promise.state = "fulfilled" =>
                   /\ Len(services) >= Len(batch)
                   /\ \A i \in 1..Len(batch) :
                          services[Len(services) - Len(batch) + i].key = batch[i].name

\* An autoLoad registered three modules of which the first discovered has no
\* priority, the second a positive one and the third priority 0: the second
\* went first and the two of priority 0 kept their order.
C11_Witness ==
    /\ Submitted
    /\ last.promise.state = "fulfilled"
    /\ Len(Discovered) = 3
    /\ Discovered[1].options.priority = Undefined
    /\ PriorityValue(Discovered[2]) > 0
    /\ Discovered[3].options.priority = Num(0)
    /\ SubmittedModules = <<Discovered[2], Discovered[1], Discovered[3]>>

----------------------------------------------------------------------------
(* C12 *)

RegisteredBefore(name) ==
    \E k \in 1..Len(last.pre) : last.pre[k].key = name

\* The scan of the last autoLoad got to the i-th module, and that module has
\* the name of a registered service and no upsert option: the modules before
\* it are valid, have other names, and those that name a registered service
\* ask to replace it and its disposer does not throw.
ConflictAt(i) ==
    /\ last.op = "autoLoad"
    /\ i \in 1..Len(Discovered)
    /\ \A j \in 1..i : Discovered[j] # Undefined
    /\ RegisteredBefore(Discovered[i].name)
    /\ Discovered[i].options.upsert # TRUE
    /\ \A j \in 1..(i - 1) :
          /\ Discovered[j].name # Discovered[i].name
          /\ RegisteredBefore(Discovered[j].name) =>
                /\ Discovered[j].options.upsert = TRUE
                /\ Opt(MapGet(last.pre, Discovered[j].name), "disposer") # "throws"

\* The names the modules before the i-th replace.
ReplacedBefore(i) ==
    {Discovered[j].name : j \in {k \in 1..(i - 1) : RegisteredBefore(Discovered[k].name)}}

NothingSubmitted ==
    \A k \in 1..Len(last.trace) : last.trace[k].ev # "register"

----------------------------------------------------------------------------
(* C15 *)

\* The initializers of call t that are running.
RunningInitializers(t) == {h \in hooks : h.kind = "initializer" /\ h.task = t}

BatchNames(batch, n) == [i \in 1..n |-> batch[i].name]

\* C15: while the initializer of the i-th service of a register call runs, no
\* other initializer of that call runs, the call waits, and it has checked,
\* stored and logged nothing beyond its i-th service: the names it has stored
\* are those of its first i services, in order, and what it has logged is
\* among them.
C15_InitializersSequential ==
    \A t \in 1..Len(tasks) :
        \A h \in RunningInitializers(t) :
            /\ RunningInitializers(t) = {h}
            /\ tasks[t].state = "awaiting"
            /\ tasks[t].checked = h.index
            /\ tasks[t].stored = BatchNames(tasks[t].arg, h.index)
            /\ \A k \in 1..Len(tasks[t].logged) :
                  \E i \in 1..h.index : tasks[t].logged[k] = tasks[t].arg[i].name
            /\ MapHas(services, h.name) \/
                  \E d \in 1..Len(tasks) : tasks[d].op = "dispose" /\ tasks[d].arg = h.name

\* The initializer of the second service of a register call runs after that
\* of its first service has completed.
C15_Witness ==
    \E t \in 1..Len(tasks) :
        /\ tasks[t].op = "register"
        /\ Opt(tasks[t].arg[1], "initializer") # "undefined"
        /\ \E h \in RunningInitializers(t) : h.index = 2

----------------------------------------------------------------------------
(* C16 *)

\* C16: while a disposer runs, the name it was called for is still in the
\* registry and the dispose call that started it has not completed.
C16_DisposeAwaitsDisposer ==
    \A h \in hooks :
        h.kind = "disposer" =>
            /\ MapHas(services, h.name)
            /\ tasks[h.task].state # "fulfilled"

----------------------------------------------------------------------------
(* C17 *)

\* Two register calls of which the second began while the first was suspended.
InFlightTogether(t, u) ==
    /\ t \in 1..Len(tasks) /\ u \in 1..Len(tasks)
    /\ tasks[t].op = "register" /\ tasks[u].op = "register"
    /\ t \in tasks[u].concurrent

\* Call t has run the duplicate check for a service named name.
Checked(t, name) ==
    \E i \in 1..tasks[t].checked : tasks[t].arg[i].name = name

HasStored(t, name) ==
    \E k \in 1..Len(tasks[t].stored) : tasks[t].stored[k] = name

NeverDisposed(name) ==
    \A d \in 1..Len(tasks) :
        ~(tasks[d].op = "dispose" /\ tasks[d].arg = name /\ tasks[d].state = "fulfilled")

\* The service of its array that call t stored under name.
StoredService(t, name) ==
    LET i == CHOOSE i \in 1..tasks[t].checked :
                 /\ tasks[t].arg[i].name = name
                 /\ \A j \in 1..(i - 1) : tasks[t].arg[j].name # name
    IN  tasks[t].arg[i]

\* The entry is what register stores for the service.
EntryOf(service, entry) ==
    IF Opt(service, "lazyLoad") THEN entry = service
    ELSE IsEager(entry) /\ MatchesKind(service, entry.service)

FailedAsDuplicate(t, name) ==
    /\ tasks[t].state = "rejected"
    /\ tasks[t].error = Err("is already registered", name.val)

====
